---- MODULE Spec2Model ----
(***************************************************************************)
(* Model of read_bge20th_save.py: the BGE 20th Anniversary save editor.    *)
(*                                                                         *)
(* Bytes are integers 0..255 and a bytes object is a sequence of them.     *)
(* A Python str is a sequence of character codes; the model's alphabet is  *)
(* ASCII, for which the UTF-8 encoding cbor2 uses is the code itself.      *)
(* A decoded CBOR value is a record [k, v]:                                *)
(*   k = "int"   v an integer          k = "str"   v a sequence of codes   *)
(*   k = "bytes" v a sequence of bytes k = "bool"  v a BOOLEAN             *)
(*   k = "null"  v = 0 (Python None)   k = "list"  v a sequence of values  *)
(*   k = "dict"  v a sequence of <<key, value>> pairs in insertion order   *)
(* Floats are not part of the model's value universe.                      *)
(***************************************************************************)
EXTENDS Integers, Sequences, FiniteSets, TLC

\* ------------------------------------------------------------------ bounds

\* Saves that write a file, and edits, allowed in one behaviour.
MaxSaves == 2
MaxEdits == 2
\* Longest byte string handed to the image scan.
MaxDataLen == 8

\* ------------------------------------------------------- Python primitives

Min(a, b) == IF a < b THEN a ELSE b
Max(a, b) == IF a > b THEN a ELSE b

\* Python's s[lo:hi] for a sequence, 0-based, negative bounds counted from
\* the end, both clamped to the sequence.
PySlice(s, lo, hi) ==
    LET n == Len(s)
        l == IF lo < 0 THEN Max(n + lo, 0) ELSE Min(lo, n)
        h == IF hi < 0 THEN Max(n + hi, 0) ELSE Min(hi, n)
    IN  IF l >= h THEN << >> ELSE SubSeq(s, l + 1, h)

\* Python's s[lo:].
PyFrom(s, lo) == PySlice(s, lo, Len(s))

\* bytes.find(needle, start): the lowest 0-based index at or after start
\* where needle occurs, or -1.
Find(hay, needle, start) ==
    LET hits == { i \in start .. (Len(hay) - Len(needle)) :
                    SubSeq(hay, i + 1, i + Len(needle)) = needle }
    IN  IF hits = {} THEN -1
        ELSE CHOOSE i \in hits : \A j \in hits : i <= j

\* Character codes used below.
IsDigit(c) == c >= 48 /\ c <= 57

RECURSIVE DigitsValue(_)
DigitsValue(s) ==
    IF s = << >> THEN 0
    ELSE 10 * DigitsValue(SubSeq(s, 1, Len(s) - 1)) + (s[Len(s)] - 48)

\* int(text): an optional sign followed by one or more decimal digits; any
\* other text of the model's alphabet raises ValueError (ok = FALSE).
ParseInt(s) ==
    LET signed == Len(s) > 0 /\ s[1] \in {43, 45}
        body   == IF signed THEN Tail(s) ELSE s
        good   == Len(body) > 0 /\ \A i \in 1 .. Len(body) : IsDigit(body[i])
    IN  IF ~good THEN [ok |-> FALSE, val |-> 0]
        ELSE [ok |-> TRUE,
              val |-> IF signed /\ s[1] = 45 THEN 0 - DigitsValue(body)
                      ELSE DigitsValue(body)]

RECURSIVE NatStr(_)
NatStr(n) ==
    IF n < 10 THEN << 48 + n >> ELSE Append(NatStr(n \div 10), 48 + (n % 10))

\* str(n) for an integer.
IntStr(n) == IF n < 0 THEN << 45 >> \o NatStr(0 - n) ELSE NatStr(n)

\* str.lower() on ASCII.
Lower(s) == [i \in 1 .. Len(s) |-> IF s[i] >= 65 /\ s[i] <= 90 THEN s[i] + 32 ELSE s[i]]

HexDigit(d) == IF d < 10 THEN 48 + d ELSE 87 + d

\* binascii.hexlify(data).decode(): two lowercase hex digits per byte.
RECURSIVE Hexlify(_)
Hexlify(data) ==
    IF data = << >> THEN << >>
    ELSE << HexDigit(data[1] \div 16), HexDigit(data[1] % 16) >> \o Hexlify(Tail(data))

\* f'{n:08x}'.encode('ascii'): lowercase hex, zero-padded to at least 8.
RECURSIVE HexStr(_)
HexStr(n) ==
    IF n < 16 THEN << HexDigit(n) >> ELSE Append(HexStr(n \div 16), HexDigit(n % 16))

RECURSIVE ZeroPad(_, _)
ZeroPad(s, w) == IF Len(s) >= w THEN s ELSE ZeroPad(<< 48 >> \o s, w)

Format08x(n) == ZeroPad(HexStr(n), 8)

\* ------------------------------------------------------------------- cbor2

NoneVal == [k |-> "null", v |-> 0]
IntVal(n) == [k |-> "int", v |-> n]
StrVal(s) == [k |-> "str", v |-> s]
BytesVal(s) == [k |-> "bytes", v |-> s]
BoolVal(b) == [k |-> "bool", v |-> b]
ListVal(s) == [k |-> "list", v |-> s]
DictVal(s) == [k |-> "dict", v |-> s]

\* The initial byte and argument of a data item, shortest form (cbor2's
\* encode_length).  Arguments of the model stay below 65536.
EncodeHead(major, n) ==
    IF n < 24 THEN << major * 32 + n >>
    ELSE IF n < 256 THEN << major * 32 + 24, n >>
    ELSE << major * 32 + 25, n \div 256, n % 256 >>

\* cbor2.dumps(value).
RECURSIVE Encode(_)
RECURSIVE EncodeAll(_)
RECURSIVE EncodePairs(_)
Encode(x) ==
    CASE x.k = "int"   -> IF x.v >= 0 THEN EncodeHead(0, x.v) ELSE EncodeHead(1, (0 - 1) - x.v)
      [] x.k = "bytes" -> EncodeHead(2, Len(x.v)) \o x.v
      [] x.k = "str"   -> EncodeHead(3, Len(x.v)) \o x.v
      [] x.k = "list"  -> EncodeHead(4, Len(x.v)) \o EncodeAll(x.v)
      [] x.k = "dict"  -> EncodeHead(5, Len(x.v)) \o EncodePairs(x.v)
      [] x.k = "bool"  -> IF x.v THEN << 245 >> ELSE << 244 >>
      [] OTHER         -> << 246 >>
EncodeAll(xs) == IF xs = << >> THEN << >> ELSE Encode(Head(xs)) \o EncodeAll(Tail(xs))
EncodePairs(ps) ==
    IF ps = << >> THEN << >>
    ELSE Encode(Head(ps)[1]) \o Encode(Head(ps)[2]) \o EncodePairs(Tail(ps))

\* Python equality of two values as dict keys: True == 1 and False == 0,
\* otherwise equal values are the ones with equal encodings.
KeyNorm(x) == IF x.k = "bool" THEN IntVal(IF x.v THEN 1 ELSE 0) ELSE x
KeyEq(a, b) == Encode(KeyNorm(a)) = Encode(KeyNorm(b))

\* Position (1-based) of key in a dict's pairs, 0 when absent.
DictIndex(ps, key) ==
    LET hits == { i \in 1 .. Len(ps) : KeyEq(ps[i][1], key) }
    IN  IF hits = {} THEN 0 ELSE CHOOSE i \in hits : TRUE

\* d[key] = value on a dict: an existing key keeps its position.
DictPut(ps, key, value) ==
    LET i == DictIndex(ps, key)
    IN  IF i = 0 THEN Append(ps, << key, value >>)
        ELSE [ps EXCEPT ![i] = << ps[i][1], value >>]

BadItem == [ok |-> FALSE, val |-> NoneVal, next |-> 0]

\* The argument that follows the initial byte at position p (1-based):
\* immediate, 1 byte or 2 bytes.  Wider, indefinite and reserved forms
\* do not occur in the model's files and are reported as undecodable.
DecodeArg(b, p) ==
    LET info == b[p] % 32
    IN  IF info < 24 THEN [ok |-> TRUE, n |-> info, next |-> p + 1]
        ELSE IF info = 24 /\ p + 1 <= Len(b)
             THEN [ok |-> TRUE, n |-> b[p + 1], next |-> p + 2]
        ELSE IF info = 25 /\ p + 2 <= Len(b)
             THEN [ok |-> TRUE, n |-> b[p + 1] * 256 + b[p + 2], next |-> p + 3]
        ELSE [ok |-> FALSE, n |-> 0, next |-> 0]

\* CBORDecoder.decode(): the data item that starts at position p, or a
\* decode error (ok = FALSE) when the bytes run out or are not decodable.
RECURSIVE DecodeAt(_, _)
RECURSIVE DecodeList(_, _, _)
RECURSIVE DecodeDict(_, _, _)
DecodeAt(b, p) ==
    IF p > Len(b) THEN BadItem
    ELSE
    LET major == b[p] \div 32
        a == DecodeArg(b, p)
    IN  IF major = 7
        THEN CASE b[p] = 244 -> [ok |-> TRUE, val |-> BoolVal(FALSE), next |-> p + 1]
               [] b[p] = 245 -> [ok |-> TRUE, val |-> BoolVal(TRUE), next |-> p + 1]
               [] b[p] = 246 -> [ok |-> TRUE, val |-> NoneVal, next |-> p + 1]
               [] OTHER      -> BadItem
        ELSE IF ~a.ok \/ major = 6 THEN BadItem
        ELSE CASE major = 0 -> [ok |-> TRUE, val |-> IntVal(a.n), next |-> a.next]
               [] major = 1 -> [ok |-> TRUE, val |-> IntVal((0 - 1) - a.n), next |-> a.next]
               [] major \in {2, 3} ->
                    IF a.next + a.n - 1 > Len(b) THEN BadItem
                    ELSE [ok |-> TRUE,
                          val |-> IF major = 2
                                  THEN BytesVal(SubSeq(b, a.next, a.next + a.n - 1))
                                  ELSE StrVal(SubSeq(b, a.next, a.next + a.n - 1)),
                          next |-> a.next + a.n]
               [] major = 4 ->
                    LET r == DecodeList(b, a.next, a.n)
                    IN  IF r.ok THEN [ok |-> TRUE, val |-> ListVal(r.val), next |-> r.next]
                        ELSE BadItem
               [] OTHER ->
                    LET r == DecodeDict(b, a.next, a.n)
                    IN  IF r.ok THEN [ok |-> TRUE, val |-> DictVal(r.val), next |-> r.next]
                        ELSE BadItem
DecodeList(b, p, n) ==
    IF n = 0 THEN [ok |-> TRUE, val |-> << >>, next |-> p]
    ELSE LET h == DecodeAt(b, p)
         IN  IF ~h.ok THEN [ok |-> FALSE, val |-> << >>, next |-> 0]
             ELSE LET t == DecodeList(b, h.next, n - 1)
                  IN  [ok |-> t.ok, val |-> << h.val >> \o t.val, next |-> t.next]
\* The pairs are decoded left to right and stored as a Python dict stores
\* them: a repeated key overwrites the value at the key's first position.
DecodeDict(b, p, n) ==
    IF n = 0 THEN [ok |-> TRUE, val |-> << >>, next |-> p]
    ELSE LET kk == DecodeAt(b, p)
             vv == IF kk.ok THEN DecodeAt(b, kk.next) ELSE BadItem
         IN  IF ~vv.ok THEN [ok |-> FALSE, val |-> << >>, next |-> 0]
             ELSE LET t == DecodeDict(b, vv.next, n - 1)
                      rest == IF DictIndex(t.val, kk.val) = 0
                              THEN << << kk.val, vv.val >> >> \o t.val
                              ELSE << << kk.val, t.val[DictIndex(t.val, kk.val)][2] >> >> \o
                                   [i \in 1 .. (Len(t.val) - 1) |->
                                      IF i < DictIndex(t.val, kk.val) THEN t.val[i] ELSE t.val[i + 1]]
                  IN  [ok |-> t.ok, val |-> IF t.ok THEN rest ELSE << >>, next |-> t.next]

\* cbor2.loads(data): the first data item; bytes after it are not read.
Loads(data) == DecodeAt(data, 1)

\* --------------------------------------------------------------- key paths

Fail == [ok |-> FALSE, val |-> NoneVal]
Ok(x) == [ok |-> TRUE, val |-> x]

\* key.startswith("[") and key.endswith("]")
IsIndexStep(key) == Len(key) > 0 /\ key[1] = 91 /\ key[Len(key)] = 93

\* d[i] for an integer i: a list or a text or a byte string is indexed the
\* Python way (a negative i counts from the end), a dict is looked up with
\* the key i, anything else raises.
GetItemInt(d, i) ==
    CASE d.k \in {"list", "str", "bytes"} ->
            LET n == Len(d.v)
                j == IF i < 0 THEN i + n ELSE i
            IN  IF j < 0 \/ j >= n THEN Fail
                ELSE IF d.k = "list" THEN Ok(d.v[j + 1])
                ELSE IF d.k = "str" THEN Ok(StrVal(<< d.v[j + 1] >>))
                ELSE Ok(IntVal(d.v[j + 1]))
      [] d.k = "dict" ->
            LET j == DictIndex(d.v, IntVal(i))
            IN  IF j = 0 THEN Fail ELSE Ok(d.v[j][2])
      [] OTHER -> Fail

\* d[key] for a text key: only a dict holding the key answers.
GetItemKey(d, key) ==
    IF d.k # "dict" THEN Fail
    ELSE LET j == DictIndex(d.v, StrVal(key))
         IN  IF j = 0 THEN Fail ELSE Ok(d.v[j][2])

\* One iteration of the loop of get_value.
GetStep(d, key) ==
    IF IsIndexStep(key)
    THEN LET i == ParseInt(PySlice(key, 1, -1))
         IN  IF i.ok THEN GetItemInt(d, i.val) ELSE Fail
    ELSE GetItemKey(d, key)

\* get_value(d, keys); ok = FALSE when a step raises.
RECURSIVE get_value(_, _)
get_value(d, keys) ==
    IF keys = << >> THEN Ok(d)
    ELSE LET r == GetStep(d, Head(keys))
         IN  IF r.ok THEN get_value(r.val, Tail(keys)) ELSE Fail

\* d[step] = value, after the read of d[step] that precedes it in set_value:
\* the container with the element replaced; a text or a byte string does
\* not support item assignment.
SetItem(d, key, value) ==
    IF ~GetStep(d, key).ok THEN Fail
    ELSE IF IsIndexStep(key)
    THEN LET i == ParseInt(PySlice(key, 1, -1)).val
         IN  CASE d.k = "list" ->
                    LET j == IF i < 0 THEN i + Len(d.v) ELSE i
                    IN  Ok(ListVal([d.v EXCEPT ![j + 1] = value]))
               [] d.k = "dict" -> Ok(DictVal(DictPut(d.v, IntVal(i), value)))
               [] OTHER -> Fail
    ELSE Ok(DictVal(DictPut(d.v, StrVal(key), value)))

\* cast_to_correct_type(value, value_type).  The float branch is never
\* taken: the model holds no float, so no leaf is of type 'float'.
cast_int_as_text(value, value_type) ==
    IF value_type = "bool" THEN BoolVal(Lower(value) \in {<< 116, 114, 117, 101 >>, << 49 >>})
    ELSE StrVal(value)

cast_to_correct_type(value, value_type) ==
    CASE value_type = "int" ->
            LET i == ParseInt(value) IN IF i.ok THEN IntVal(i.val) ELSE StrVal(value)
      [] value_type = "bool" ->
            BoolVal(Lower(value) \in {<< 116, 114, 117, 101 >>, << 49 >>})
      [] OTHER -> StrVal(value)

\* set_value(d, keys, value) of update_cbor_data: the tree after the in-place
\* assignment of the cast value at keys; ok = FALSE when a step raises.
RECURSIVE set_value(_, _, _, _)
set_value(d, keys, value, value_type) ==
    IF Len(keys) = 1
    THEN SetItem(d, keys[1], cast_to_correct_type(value, value_type))
    ELSE LET c == GetStep(d, Head(keys))
         IN  IF ~c.ok THEN Fail
             ELSE LET sub == set_value(c.val, Tail(keys), value, value_type)
                  IN  IF sub.ok THEN SetItem(d, Head(keys), sub.val) ELSE Fail

\* type(value).__name__
TypeName(x) ==
    CASE x.k = "null" -> "NoneType"
      [] OTHER -> x.k

\* ----------------------------------------------------------------- display

SOI == << 255, 216 >>
EOI == << 255, 217 >>

\* Whether the scan of make_human_readable finds a candidate in data, that
\* is, whether readable_data is a non-empty list after the loop.
HasCandidate(data) ==
    LET start == Find(data, SOI, 0)
    IN  start # -1 /\ Find(data, EOI, start) + 2 # 1

\* str(make_human_readable(x)) for a scalar x: what populate_tree shows as a
\* key or as an item's value.  A byte string without a candidate is shown
\* as its hex text.
ReadableText(x) ==
    CASE x.k = "int"   -> IntStr(x.v)
      [] x.k = "str"   -> x.v
      [] x.k = "bytes" -> Hexlify(x.v)
      [] x.k = "bool"  -> IF x.v THEN << 84, 114, 117, 101 >> ELSE << 70, 97, 108, 115, 101 >>
      [] OTHER         -> << 78, 111, 110, 101 >>

\* f"[{index}]"
IndexKey(index) == << 91 >> \o IntStr(index) \o << 93 >>

\* populate_tree(make_human_readable(data)): the items that show a scalar
\* value, each as <<key path from the root, text of column 1>>.  A byte
\* string holding a candidate is shown as image items, which are viewed and
\* never edited; the set leaves them out.
RECURSIVE Items(_)
Items(x) ==
    CASE x.k = "dict" ->
            UNION { { << << ReadableText(x.v[i][1]) >> \o it[1], it[2] >> : it \in Items(x.v[i][2]) }
                    : i \in 1 .. Len(x.v) }
      [] x.k = "list" ->
            UNION { { << << IndexKey(i - 1) >> \o it[1], it[2] >> : it \in Items(x.v[i]) }
                    : i \in 1 .. Len(x.v) }
      [] x.k = "bytes" /\ HasCandidate(x.v) -> {}
      [] OTHER -> { << << >>, ReadableText(x) >> }

\* The tree widget after populate_tree(data): item path -> text.  A scalar
\* at the root sets the text of the invisible root and adds no item.
TreeOf(x) ==
    LET its == { it \in Items(x) : it[1] # << >> }
    IN  [ path \in { it[1] : it \in its } |-> (CHOOSE it \in its : it[1] = path)[2] ]

\* `not x` for a decoded value.
Falsy(x) ==
    CASE x.k = "int"  -> x.v = 0
      [] x.k = "bool" -> ~x.v
      [] x.k = "null" -> TRUE
      [] OTHER        -> x.v = << >>

\* --------------------------------------------------------------- container

HeaderLen == 26
SizeFrom == 8
SizeTo == 16

\* data[26:-1] of read_and_split_sav_file and of save_changes.
DumpData(data) == PySlice(data, HeaderLen, -1)

\* ------------------------------------------------------------------- state

VARIABLES
    \* CBORViewerApp
    original_data,      \* self.original_data: bytes, or NoBytes for None
    cbor_data,          \* self.cbor_data: a value (NoneVal for None)
    changes,            \* self.changes: the dict as a sequence of entries
                        \*   [keys, original, new, type] in insertion order
    current_file_path,  \* self.current_file_path, or NoPath for None
    tree,               \* self.tree: item path -> text of column 1
    disk,               \* the file system: path -> file bytes
    \* history, read by the properties only
    last_op,            \* the last handler run and its outcome
    made_on,            \* made_on[i]: the file loaded when changes[i] was made
    edit_cnt,           \* item path -> edits since the last successful open (capped at 2)
    nsaves, nedits,
    \* get_value as a function of its arguments
    gv_d, gv_keys, gv_out, gv_pc,
    \* the byte-string branch of make_human_readable
    mh_data, mh_start, mh_readable, mh_pc, mh_out

app_vars == << original_data, cbor_data, changes, current_file_path, tree, disk,
               last_op, made_on, edit_cnt, nsaves, nedits >>
gv_vars == << gv_d, gv_keys, gv_out, gv_pc >>
mh_vars == << mh_data, mh_start, mh_readable, mh_pc, mh_out >>
vars == << app_vars, gv_vars, mh_vars >>

NoBytes == << -1 >>
NoPath == "None"

\* ------------------------------------------------------------------- files

\* A container: signature, declaredSize, sep1, unknown field, sep2, payload,
\* sep3.
Container(signature, size, unk, payload) ==
    signature \o size \o << 10 >> \o unk \o << 10 >> \o payload \o << 10 >>

Signature == << 66, 71, 69, 83, 65, 86, 69, 68 >>      \* "BGESAVED"
Unknown == << 49, 102, 50, 101, 51, 100, 52, 99 >>     \* "1f2e3d4c"

KeyA == << 97 >>
KeyB == << 98 >>
KeyH == << 104 >>

\* {"a": 7, "b": [9, 7]}
TreeA == DictVal(<< << StrVal(KeyA), IntVal(7) >>,
                    << StrVal(KeyB), ListVal(<< IntVal(9), IntVal(7) >>) >> >>)
\* {"h": -17}
TreeB == DictVal(<< << StrVal(KeyH), IntVal(-17) >> >>)

\* A well-formed file; one whose declaredSize is stale and whose payload
\* holds the byte of an ASCII "0"; one shorter than a header; one whose
\* payload is no CBOR item.
FileA == Container(Signature, Format08x(Len(Encode(TreeA))), Unknown, Encode(TreeA))
FileB == Container(Signature, << 48, 48, 48, 48, 48, 48, 102, 102 >>, Unknown, Encode(TreeB))
FileS == << 66, 71, 69, 83, 65 >>
FileG == Container(Signature, Format08x(1), Unknown, << 255 >>)

\* The paths the file dialog may return; it returns existing files only.
Paths == {"A", "B"}

\* What the user may type in the edit dialog: "9", "100", "x".
Texts == { << 57 >>, << 49, 48, 48 >>, << 120 >> }

NoOp == [op |-> "none", ok |-> FALSE, path |-> NoPath, pre |-> << >>]

AppStart(other) ==
    /\ original_data = NoBytes
    /\ cbor_data = NoneVal
    /\ changes = << >>
    /\ current_file_path = NoPath
    /\ tree = << >>
    /\ disk = [p \in Paths |-> IF p = "A" THEN FileA ELSE other]
    /\ last_op = NoOp
    /\ made_on = << >>
    /\ edit_cnt = << >>
    /\ nsaves = 0
    /\ nedits = 0

GvIdle == gv_d = NoneVal /\ gv_keys = << >> /\ gv_out = Fail /\ gv_pc = "idle"
MhIdle == mh_data = << >> /\ mh_start = 0 /\ mh_readable = << >> /\ mh_pc = "idle" /\ mh_out = << >>

\* ----------------------------------------------------------------- open_file

\* open_file with the dialog answering file_path.  The path and the bytes
\* are stored before the payload is parsed; parse_cbor_dump turns a decode
\* error into None, and a falsy value is reported as a failure.
open_file(file_path) ==
    /\ current_file_path' = file_path
    /\ \E parsed \in { Loads(DumpData(disk[file_path])) } :
       \E value \in { IF parsed.ok THEN parsed.val ELSE NoneVal } :
          /\ original_data' = disk[file_path]
          /\ cbor_data' = value
          /\ IF Falsy(value)
             THEN /\ last_op' = [op |-> "open", ok |-> FALSE, path |-> file_path, pre |-> << >>]
                  /\ UNCHANGED << tree, edit_cnt >>
             ELSE /\ last_op' = [op |-> "open", ok |-> TRUE, path |-> file_path, pre |-> << >>]
                  /\ tree' = TreeOf(value)
                  /\ edit_cnt' = [path \in DOMAIN tree' |-> 0]
    /\ UNCHANGED << changes, made_on, disk, nsaves, nedits >>

OpenFile == (\E file_path \in Paths : open_file(file_path)) /\ UNCHANGED << gv_vars, mh_vars >>

\* ------------------------------------------------------ on_item_double_click

\* Position of keys in the journal, 0 when absent.
ChangeIndex(chs, keys) ==
    LET hits == { i \in 1 .. Len(chs) : chs[i].keys = keys }
    IN  IF hits = {} THEN 0 ELSE CHOOSE i \in hits : TRUE

\* self.changes[tuple(keys)] = entry: a dict assignment, so a path already
\* in the journal keeps its place and has its entry replaced.
ChangesPut(chs, entry) ==
    LET i == ChangeIndex(chs, entry.keys)
    IN  IF i = 0 THEN Append(chs, entry) ELSE [chs EXCEPT ![i] = entry]

\* A double click on the item at keys, the dialog answered with new_value.
\* get_detailed_information resolves keys in cbor_data first and raises
\* when that fails, before anything is changed.  update_cbor_data then
\* records the entry, whose "original" is read from cbor_data as it is
\* now, and assigns the cast value in place.
on_item_double_click(keys, new_value) ==
    /\ new_value # tree[keys]
    /\ \E value \in { get_value(cbor_data, keys) } :
          /\ value.ok
          /\ \E value_type \in { TypeName(value.val) } :
             \E assigned \in { set_value(cbor_data, keys, new_value, value_type) } :
                /\ tree' = [tree EXCEPT ![keys] = new_value]
                /\ changes' = ChangesPut(changes, [keys |-> keys, original |-> value.val,
                                                    new |-> new_value, type |-> value_type])
                /\ cbor_data' = IF assigned.ok THEN assigned.val ELSE cbor_data
    /\ made_on' = IF ChangeIndex(changes, keys) = 0 THEN Append(made_on, current_file_path)
                  ELSE [made_on EXCEPT ![ChangeIndex(changes, keys)] = current_file_path]
    /\ edit_cnt' = [edit_cnt EXCEPT ![keys] = Min(@ + 1, 2)]
    /\ last_op' = [op |-> "edit", ok |-> TRUE, path |-> current_file_path, pre |-> << >>]
    /\ nedits' = nedits + 1
    /\ UNCHANGED << original_data, current_file_path, disk, nsaves >>

EditLeaf ==
    /\ nedits < MaxEdits
    /\ \E keys \in DOMAIN tree, new_value \in Texts : on_item_double_click(keys, new_value)
    /\ UNCHANGED << gv_vars, mh_vars >>

\* -------------------------------------------------------------- save_changes

\* One iteration of the loop over self.changes.items(): the first
\* occurrence of the encoded original in the data as patched so far is
\* replaced by the encoded cast value; no occurrence, no change.
Splice(data, change) ==
    LET original_bytes == Encode(change.original)
        new_bytes == Encode(cast_to_correct_type(change.new, change.type))
        index == Find(data, original_bytes, 0)
    IN  IF index # -1
        THEN PySlice(data, 0, index) \o new_bytes \o PyFrom(data, index + Len(original_bytes))
        ELSE data

RECURSIVE ApplyChanges(_, _)
ApplyChanges(data, chs) ==
    IF chs = << >> THEN data ELSE ApplyChanges(Splice(data, Head(chs)), Tail(chs))

\* The size field rewritten from the length of data[26:-1].
WithDumpSize(data) ==
    PySlice(data, 0, SizeFrom) \o Format08x(Len(DumpData(data))) \o PyFrom(data, SizeTo)

\* save_changes: nothing to do with an empty journal; otherwise the file at
\* current_file_path is read again, patched, given its size field and
\* written back.  The journal is left as it is.
save_changes ==
    /\ nsaves < MaxSaves
    /\ IF changes = << >>
       THEN /\ last_op' = [op |-> "save", ok |-> FALSE, path |-> current_file_path, pre |-> << >>]
            /\ UNCHANGED << disk, nsaves >>
       ELSE LET original_file_data == disk[current_file_path]
            IN  /\ disk' = [disk EXCEPT ![current_file_path] =
                              WithDumpSize(ApplyChanges(original_file_data, changes))]
                /\ last_op' = [op |-> "save", ok |-> TRUE, path |-> current_file_path,
                               pre |-> original_file_data]
                /\ nsaves' = nsaves + 1
    /\ UNCHANGED << original_data, cbor_data, changes, current_file_path, tree,
                    made_on, edit_cnt, nedits >>

SaveFile == save_changes /\ UNCHANGED << gv_vars, mh_vars >>

Init == (\E other \in {FileB, FileS, FileG} : AppStart(other)) /\ GvIdle /\ MhIdle
Next == OpenFile \/ EditLeaf \/ SaveFile
Spec == Init /\ [][Next]_vars

\* ----------------------------------------------- get_value as a function

\* The trees and the steps get_value is applied to:
\* {"a": [1, 2, {"b": 5}]} and {"a": {2: 5}, "b": "xy"}; the steps
\* "a", "b", "[2]", "[9]", "[-1]", "[0]".
GvTrees ==
    { DictVal(<< << StrVal(KeyA),
                    ListVal(<< IntVal(1), IntVal(2),
                               DictVal(<< << StrVal(KeyB), IntVal(5) >> >>) >>) >> >>),
      DictVal(<< << StrVal(KeyA), DictVal(<< << IntVal(2), IntVal(5) >> >>) >>,
                 << StrVal(KeyB), StrVal(<< 120, 121 >>) >> >>) }
GvSteps == { KeyA, KeyB, << 91, 50, 93 >>, << 91, 57, 93 >>, << 91, 45, 49, 93 >>, << 91, 48, 93 >> }
MaxPathLen == 3

GvPaths == UNION { [1 .. n -> GvSteps] : n \in 0 .. MaxPathLen }

GvInit ==
    /\ gv_d \in GvTrees
    /\ gv_keys \in GvPaths
    /\ gv_out = Fail
    /\ gv_pc = "ready"

GetValueCall ==
    /\ gv_pc = "ready"
    /\ gv_out' = get_value(gv_d, gv_keys)
    /\ gv_pc' = "done"
    /\ UNCHANGED << gv_d, gv_keys, app_vars, mh_vars >>

InitResolve == AppStart(FileB) /\ GvInit /\ MhIdle
SpecResolve == InitResolve /\ [][GetValueCall]_vars

\* ------------------------------- make_human_readable on a byte string

MhBytes == { 0, 216, 217, 255 }
MhInputs == UNION { [1 .. n -> MhBytes] : n \in 0 .. MaxDataLen }

MhInit ==
    /\ mh_data \in MhInputs
    /\ mh_start = 0
    /\ mh_readable = << >>
    /\ mh_pc = "loop"
    /\ mh_out = << >>

\* data.find(b'\xff\xd9', start) + 2
ScanEndFromZero(data, start) == Find(data, EOI, 0) + 2
ScanEnd(data, start) == Find(data, EOI, start) + 2

\* One pass through the body of the while loop.  Image.open and the
\* pixmap conversion either succeed or raise; either way one entry is
\* appended (the pixmap, or the failure text) and the scan goes on from
\* end.  An entry records the slice, where it was cut and how decoding
\* went.
MhIterate ==
    /\ mh_pc = "loop"
    /\ LET start == Find(mh_data, SOI, mh_start)
           end == ScanEnd(mh_data, start)
       IN  IF start = -1
           THEN /\ mh_start' = start
                /\ mh_pc' = "after"
                /\ UNCHANGED mh_readable
           ELSE IF end = 1
           THEN /\ mh_start' = start
                /\ mh_pc' = "after"
                /\ UNCHANGED mh_readable
           ELSE /\ \E decoded \in BOOLEAN :
                      mh_readable' = Append(mh_readable,
                          [jpeg_data |-> PySlice(mh_data, start, end), from |-> start,
                           to |-> end, decoded |-> decoded])
                /\ mh_start' = end
                /\ UNCHANGED mh_pc
    /\ UNCHANGED << mh_data, mh_out, app_vars, gv_vars >>

\* After the loop: an empty list is replaced by the hex text of the data.
MhFinish ==
    /\ mh_pc = "after"
    /\ mh_out' = IF mh_readable = << >>
                 THEN [kind |-> "hex", text |-> Hexlify(mh_data), list |-> << >>]
                 ELSE [kind |-> "list", text |-> << >>, list |-> mh_readable]
    /\ mh_pc' = "done"
    /\ UNCHANGED << mh_data, mh_start, mh_readable, app_vars, gv_vars >>

InitImages == AppStart(FileB) /\ GvIdle /\ MhInit
NextImages == MhIterate \/ MhFinish
SpecImages == InitImages /\ [][NextImages]_vars

\* ============================================================== properties

IsHexChar(c) == (c >= 48 /\ c <= 57) \/ (c >= 97 /\ c <= 102) \/ (c >= 65 /\ c <= 70)
HexCharValue(c) == IF c <= 57 THEN c - 48 ELSE IF c >= 97 THEN c - 87 ELSE c - 55

RECURSIVE HexValue(_)
HexValue(s) ==
    IF s = << >> THEN 0
    ELSE 16 * HexValue(SubSeq(s, 1, Len(s) - 1)) + HexCharValue(s[Len(s)])

\* The last handler run was a save that wrote the file.
Saved == last_op.op = "save" /\ last_op.ok
SavedFile == disk[last_op.path]

\* A file is loaded: the last open_file got a tree out of the payload.
Loaded == ~Falsy(cbor_data)

\* The tree held by the payload of file bytes.
TreeIn(data) == Loads(DumpData(data))

\* Same Python value.
SameValue(a, b) == Encode(a) = Encode(b)

\* Offset, within Encode(x), of the encoding of the node get_value(x, keys)
\* reaches.
RECURSIVE NodeOffset(_, _)
NodeOffset(x, keys) ==
    IF keys = << >> THEN 0
    ELSE LET i == ParseInt(PySlice(Head(keys), 1, -1)).val
             next == GetStep(x, Head(keys)).val
         IN  IF x.k = "list"
             THEN LET j == IF i < 0 THEN i + Len(x.v) ELSE i
                  IN  Len(EncodeHead(4, Len(x.v))) + Len(EncodeAll(SubSeq(x.v, 1, j)))
                      + NodeOffset(next, Tail(keys))
             ELSE LET j == DictIndex(x.v, IF IsIndexStep(Head(keys)) THEN IntVal(i)
                                          ELSE StrVal(Head(keys)))
                  IN  Len(EncodeHead(5, Len(x.v))) + Len(EncodePairs(SubSeq(x.v, 1, j - 1)))
                      + Len(Encode(x.v[j][1])) + NodeOffset(next, Tail(keys))

\* The save just made was of the file as it was opened, and every entry of
\* the journal was made by exactly one edit of its leaf since that open.
CleanSave ==
    /\ Saved
    /\ Loaded
    /\ last_op.pre = original_data
    /\ current_file_path = last_op.path
    /\ TreeIn(last_op.pre).ok
    /\ PySlice(DumpData(last_op.pre), 0, Len(Encode(TreeIn(last_op.pre).val)))
         = Encode(TreeIn(last_op.pre).val)
    /\ \A i \in 1 .. Len(changes) :
          /\ made_on[i] = last_op.path
          /\ changes[i].keys \in DOMAIN edit_cnt
          /\ edit_cnt[changes[i].keys] = 1
          /\ get_value(TreeIn(last_op.pre).val, changes[i].keys).ok

\* Entry c is the edit of an integer leaf to a text that parses as an integer.
IntEdit(c) ==
    /\ get_value(TreeIn(last_op.pre).val, c.keys).val.k = "int"
    /\ c.type = "int"
    /\ ParseInt(c.new).ok

\* The first occurrence of the encoded original value of entry c, in the
\* file read by the save, is the encoding of c's own leaf.
TargetsOwnLeaf(c) ==
    Find(last_op.pre, Encode(get_value(TreeIn(last_op.pre).val, c.keys).val), 0)
      = HeaderLen + NodeOffset(TreeIn(last_op.pre).val, c.keys)

\* The payload of the saved file decodes to a tree holding, at c's path,
\* the value c asks for, with its type.
SavedHas(c) ==
    LET saved == TreeIn(SavedFile)
        leaf == IF saved.ok THEN get_value(saved.val, c.keys) ELSE Fail
    IN  leaf.ok /\ SameValue(leaf.val, cast_to_correct_type(c.new, c.type))

SavedHasInt(c) ==
    LET saved == TreeIn(SavedFile)
        leaf == IF saved.ok THEN get_value(saved.val, c.keys) ELSE Fail
    IN  leaf.ok /\ leaf.val.k = "int" /\ leaf.val.v = ParseInt(c.new).val

\* C1: after a save that wrote the file, bytes [8:16] of the written file
\* are eight ASCII hex digits whose value is the length of its payload
\* segment [26:len-1].
C1_DeclaredSizeMatchesPayload ==
    Saved =>
        LET size == PySlice(SavedFile, SizeFrom, SizeTo)
        IN  /\ Len(size) = 8
            /\ \A i \in 1 .. Len(size) : IsHexChar(size[i])
            /\ HexValue(size) = Len(DumpData(SavedFile))

C3_FailedOpenKeepsState ==
    [][(last_op'.op = "open" /\ ~last_op'.ok)
          => UNCHANGED << current_file_path, original_data, cbor_data, changes >>]_vars

\* C4: a leaf edited twice or more since the open has one journal entry,
\* holding the value the leaf had in the payload decoded at open and the
\* text of the most recent edit.
C4_JournalKeepsOpenValue ==
    Loaded =>
        \A keys \in DOMAIN edit_cnt :
            edit_cnt[keys] >= 2 =>
                /\ Cardinality({ i \in 1 .. Len(changes) : changes[i].keys = keys }) = 1
                /\ LET c == changes[ChangeIndex(changes, keys)]
                   IN  /\ c.new = tree[keys]
                       /\ SameValue(c.original, get_value(TreeIn(original_data).val, keys).val)

\* C5: after a save that wrote the file the journal is empty.
C5_JournalConsumedBySave == Saved => changes = << >>

\* C6: a save of a whole container leaves the signature, sep1, the unknown
\* field, sep2 and the trailer byte as they were read.
C6_SaveKeepsHeaderAndTrailer ==
    (Saved /\ Len(last_op.pre) >= HeaderLen + 1) =>
        /\ PySlice(SavedFile, 0, SizeFrom) = PySlice(last_op.pre, 0, SizeFrom)
        /\ PySlice(SavedFile, SizeTo, HeaderLen) = PySlice(last_op.pre, SizeTo, HeaderLen)
        /\ PyFrom(SavedFile, -1) = PyFrom(last_op.pre, -1)

\* C9: with several entries, each of which first occurs in the file as read
\* at its own leaf, the saved file holds every entry's new value at its
\* leaf: no entry is applied to bytes an earlier entry spliced in.
C9_SplicesTargetOriginalBytes ==
    (CleanSave /\ Len(changes) >= 2 /\ \A i \in 1 .. Len(changes) : TargetsOwnLeaf(changes[i]))
        => \A i \in 1 .. Len(changes) : SavedHas(changes[i])

\* C10: after a successful open_file the journal holds no entry made while
\* another file was loaded.
C10_JournalScopedToFile ==
    (last_op.op = "open" /\ last_op.ok) =>
        \A i \in 1 .. Len(changes) : made_on[i] = current_file_path

\* Resolution as the key-path contract states it: a step "[n]" is the
\* array index n and answers only on an array holding index n, any other
\* step is a map key and answers only on a map holding that key.
RefStep(d, key) ==
    IF IsIndexStep(key) /\ ParseInt(PySlice(key, 1, -1)).ok
    THEN LET n == ParseInt(PySlice(key, 1, -1)).val
         IN  IF d.k = "list" /\ n >= 0 /\ n < Len(d.v) THEN Ok(d.v[n + 1]) ELSE Fail
    ELSE IF d.k = "dict" /\ \E j \in 1 .. Len(d.v) : d.v[j][1].k = "str" /\ d.v[j][1].v = key
         THEN Ok(d.v[CHOOSE j \in 1 .. Len(d.v) : d.v[j][1].k = "str" /\ d.v[j][1].v = key][2])
         ELSE Fail

RECURSIVE RefResolve(_, _)
RefResolve(d, keys) ==
    IF keys = << >> THEN Ok(d)
    ELSE LET r == RefStep(d, Head(keys))
         IN  IF r.ok THEN RefResolve(r.val, Tail(keys)) ELSE Fail

\* C7: get_value returns the node the steps address, applied left to
\* right, and fails when a key or an index is absent or a step meets a
\* node of the other kind.
C7_ResolveFollowsContract ==
    gv_pc = "done" =>
        LET ref == RefResolve(gv_d, gv_keys)
        IN  /\ gv_out.ok = ref.ok
            /\ ref.ok => SameValue(gv_out.val, ref.val)

MarkerAt(data, marker, i) == i >= 0 /\ i + 2 <= Len(data) /\ SubSeq(data, i + 1, i + 2) = marker

\* The entries are the first candidates of a leftmost-first scan without
\* overlap: each starts at the first start marker at or after the end of
\* the one before, ends with the first end marker after its start marker,
\* and holds exactly that slice.
ScannedSoFar(data, entries) ==
    \A i \in 1 .. Len(entries) :
        LET c == entries[i]
            prev == IF i = 1 THEN 0 ELSE entries[i - 1].to
        IN  /\ c.from >= prev
            /\ MarkerAt(data, SOI, c.from)
            /\ \A j \in prev .. (c.from - 1) : ~MarkerAt(data, SOI, j)
            /\ c.to >= c.from + 4
            /\ c.to <= Len(data)
            /\ MarkerAt(data, EOI, c.to - 2)
            /\ \A j \in (c.from + 2) .. (c.to - 3) : ~MarkerAt(data, EOI, j)
            /\ c.jpeg_data = SubSeq(data, c.from + 1, c.to)

ScanEndsAt(entries) == IF entries = << >> THEN 0 ELSE entries[Len(entries)].to

\* No candidate is left after the entries.
NothingLeft(data, entries) ==
    ~ \E s \in ScanEndsAt(entries) .. Len(data) :
        /\ MarkerAt(data, SOI, s)
        /\ \E e \in (s + 2) .. Len(data) : MarkerAt(data, EOI, e)

\* C8: the entries are exactly the candidates of the leftmost-first scan,
\* the scan resumes right after each end marker and advances by at least
\* four bytes per entry within the data (so it ends), an entry is kept
\* whether or not it decodes, and the result is the hex text of the data
\* exactly when there is no entry.
C8_ScanExtractsCandidates ==
    /\ ScannedSoFar(mh_data, mh_readable)
    /\ mh_pc = "loop" => mh_start = ScanEndsAt(mh_readable)
    /\ mh_pc \in {"after", "done"} => NothingLeft(mh_data, mh_readable)
    /\ mh_pc = "done" =>
          /\ (mh_out.kind = "hex") = (mh_readable = << >>)
          /\ mh_out.kind = "hex" =>
                /\ Len(mh_out.text) = 2 * Len(mh_data)
                /\ \A i \in 1 .. Len(mh_data) :
                      HexValue(SubSeq(mh_out.text, 2 * i - 1, 2 * i)) = mh_data[i]
          /\ mh_out.kind # "hex" => mh_out.list = mh_readable

\* Two candidates were extracted, the first of which failed to decode.
C8_Witness ==
    /\ mh_pc = "done"
    /\ Len(mh_readable) = 2
    /\ ~mh_readable[1].decoded
    /\ mh_readable[2].decoded
    /\ mh_out.kind = "list"

====
